---------------------------- MODULE Spec2Model ----------------------------
(***************************************************************************)
(* A model of src/src/matchable.ts: the constructor me(value) and the      *)
(* five matchers it routes to (empty, enum, union, object, disc).          *)
(*                                                                         *)
(* JavaScript values are tagged records; JavaScript strings are sequences  *)
(* of one-character strings, so that String(), property-key conversion and *)
(* the test /^[A-Z]/ are computed and not looked up.  A record value is a   *)
(* function from its own property names to values.  A caller-supplied       *)
(* handler is identified by a name; invoking it appends one entry to the   *)
(* call log of the operation and returns a token that names the handler.   *)
(***************************************************************************)
EXTENDS Integers, Sequences, FiniteSets, TLC

VARIABLES
    input,   \* the raw value handed to me()
    m,       \* the matcher me(input) returned, or NoMatcher before the call
    d,       \* the discriminated view m.as(key) returned, or NoMatcher
    last     \* the last operation: its name, arguments, handler calls, result

vars == <<input, m, d, last>>

(***************************************************************************)
(* Bounds of the model.                                                    *)
(***************************************************************************)
MaxFields == 3     \* own properties of an input record
MaxHandlers == 2   \* entries of a handler map
MaxList == 2       \* length of a tag list or key list

(***************************************************************************)
(* JavaScript values.                                                      *)
(***************************************************************************)
Null == [t |-> "null"]
Undefined == [t |-> "undefined"]
Str(s) == [t |-> "string", v |-> s]
Num(n) == [t |-> "number", v |-> n]
Bool(b) == [t |-> "boolean", v |-> b]
Arr(s) == [t |-> "array", v |-> s]
Obj(f) == [t |-> "object", v |-> f]

\* typeof value, for the kinds the model holds
typeof(v) == IF v.t \in {"array", "null"} THEN "object" ELSE v.t

\* value == null
IsNil(v) == v.t \in {"null", "undefined"}

Digits == <<"0", "1", "2", "3", "4", "5", "6", "7", "8", "9">>

RECURSIVE NumToStr(_)
\* the decimal string of a natural number
NumToStr(n) ==
    IF n < 10 THEN <<Digits[n + 1]>>
    ELSE NumToStr(n \div 10) \o <<Digits[(n % 10) + 1]>>

\* String(v)
String(v) ==
    CASE v.t = "string" -> v.v
      [] v.t = "number" -> NumToStr(v.v)
      [] v.t = "boolean" ->
            IF v.v THEN <<"t", "r", "u", "e">> ELSE <<"f", "a", "l", "s", "e">>
      [] v.t = "null" -> <<"n", "u", "l", "l">>
      [] v.t = "undefined" -> <<"u", "n", "d", "e", "f", "i", "n", "e", "d">>

\* the property name a string or number stands for in `k in h` and h[k]
ToPropertyKey(k) == String(k)

\* obj[k]: an own property, or undefined
Get(obj, k) == IF k \in DOMAIN obj.v THEN obj.v[k] ELSE Undefined

\* Object.keys(value), as the set of own property names
ObjectKeys(value) == DOMAIN value.v

UpperCase ==
    {"A", "B", "C", "D", "E", "F", "G", "H", "I", "J", "K", "L", "M",
     "N", "O", "P", "Q", "R", "S", "T", "U", "V", "W", "X", "Y", "Z"}

\* /^[A-Z]/.test(key)
TestUpper(key) == Len(key) > 0 /\ key[1] \in UpperCase

\* isEqual(a, b) of fast-deep-equal: structural equality, an array never
\* equal to a record
isEqual(a, b) == a = b

\* arr.includes(x)
Includes(arr, x) == \E i \in 1..Len(arr) : arr[i] = x

(***************************************************************************)
(* Handlers and the outcome of an operation.                               *)
(***************************************************************************)
Fn(name) == [t |-> "function", v |-> name]
Ret(name) == [t |-> "result", v |-> name]
Error(msg) == [t |-> "error", v |-> msg]
NotAFunction == Error(<<"TypeError: not a function">>)

Underscore == <<"_">>
TheFn == <<"f", "n">>

Returned(val, calls) == [kind |-> "return", val |-> val, calls |-> calls]
Threw(err) == [kind |-> "throw", val |-> err, calls |-> <<>>]

\* fn(arg): calling what is not a function throws; a handler is logged and
\* returns its own result
Call(fn, arg) ==
    IF fn.t = "function"
    THEN Returned(Ret(fn.v), <<[fn |-> fn.v, arg |-> arg]>>)
    ELSE Threw(NotAFunction)

\* k in h
HasKey(h, k) == ToPropertyKey(k) \in DOMAIN h

\* h[k]
Lookup(h, k) ==
    IF ToPropertyKey(k) \in DOMAIN h THEN h[ToPropertyKey(k)] ELSE Undefined

(***************************************************************************)
(* comb.js: the combinators the empty matcher is built from.               *)
(***************************************************************************)
\* K(a)(b)
K(a, b) == a
\* I(a)
I(a) == a
\* call0(f)
call0(f) == Call(f, Undefined)

(***************************************************************************)
(* Enum-like (primitive) matcher.                                          *)
(***************************************************************************)
matchableEnum(value) == [recognizer |-> "enum", value |-> value]

Enum_value_or(self, fallback) ==
    Returned(IF IsNil(self.value) THEN fallback ELSE self.value, <<>>)

Enum_value_or_else(self, fallback) ==
    IF IsNil(self.value) THEN Call(fallback, Undefined)
    ELSE Returned(self.value, <<>>)

\* Enum_match with the handler given the key instead of the value
Enum_match_PassesKey(self, h) ==
    LET value == self.value
        k == IF typeof(value) = "boolean" THEN Str(String(value)) ELSE value
        handler == IF HasKey(h, k) THEN Lookup(h, k) ELSE Lookup(h, Str(Underscore))
    IN  Call(handler, k)

Enum_match(self, h) ==
    LET value == self.value
        k == IF typeof(value) = "boolean" THEN Str(String(value)) ELSE value
        handler == IF HasKey(h, k) THEN Lookup(h, k) ELSE Lookup(h, Str(Underscore))
    IN  Call(handler, value)

Enum_is(self, v) == Returned(Bool(self.value = v), <<>>)
Enum_not(self, v) == Returned(Bool(self.value # v), <<>>)

Enum_in(self, arr) ==
    Returned(Bool(IF ~IsNil(self.value) THEN Includes(arr, self.value) ELSE FALSE),
             <<>>)

Enum_not_in(self, arr) == Returned(Bool(~Enum_in(self, arr).val.v), <<>>)

Enum_into(self, fn) ==
    IF IsNil(self.value) THEN Returned(Null, <<>>) ELSE Call(fn, self.value)

Enum_catch(self, arr_branch, fn) ==
    IF ~IsNil(self.value) /\ Enum_in(self, arr_branch).val.v
    THEN Call(fn, self.value)
    ELSE Returned(Null, <<>>)

(***************************************************************************)
(* Rust-enum-like (single-key object) matcher.                             *)
(***************************************************************************)
matchableUnion(src) ==
    LET tag == CHOOSE key \in ObjectKeys(src) : TRUE
    IN  [recognizer |-> "union", tag |-> Str(tag), value |-> Get(src, tag)]

\* Union_match with the default handler given the one-field record
Union_match_DefaultGetsRecord(self, h) ==
    LET byTag == Lookup(h, self.tag)
    IN  IF ~IsNil(byTag) THEN Call(byTag, self.value)
        ELSE Call(Lookup(h, Str(Underscore)), Obj(self.tag.v :> self.value))

Union_match(self, h) ==
    LET byTag == Lookup(h, self.tag)
        fn == IF ~IsNil(byTag) THEN byTag ELSE Lookup(h, Str(Underscore))
    IN  Call(fn, self.value)

Union_is(self, l) == Returned(Bool(l = self.tag), <<>>)
Union_not(self, l) == Returned(Bool(l # self.tag), <<>>)
Union_in(self, arr) == Returned(Bool(Includes(arr, self.tag)), <<>>)
Union_not_in(self, arr) == Returned(Bool(~Union_in(self, arr).val.v), <<>>)

\* Union_into without the empty-sequence test
Union_into_NoEmptyCheck(self, fn) ==
    IF ~IsNil(self.value) THEN Call(fn, self.value) ELSE Returned(Null, <<>>)

Union_into(self, fn) ==
    IF ~IsNil(self.value) /\ ~isEqual(self.value, Arr(<<>>))
    THEN Call(fn, self.value)
    ELSE Returned(Null, <<>>)

Union_catch(self, arr_branch, fn) ==
    IF /\ Union_in(self, arr_branch).val.v
       /\ ~IsNil(self.value)
       /\ ~isEqual(self.value, Arr(<<>>))
    THEN Call(fn, self.value)
    ELSE Returned(Null, <<>>)

(***************************************************************************)
(* Empty matcher (null/undefined).                                         *)
(***************************************************************************)
emptyMatchable == [recognizer |-> "empty", value |-> Null]

Empty_value_or(fallback) == Returned(I(fallback), <<>>)
Empty_value_or_else(fallback) == call0(fallback)
\* Empty_match calling the default handler instead of returning null
Empty_match_CallsDefault(h) == Call(Lookup(h, Str(Underscore)), Undefined)

Empty_match(h) == Returned(K(Null, h), <<>>)
Empty_is(v) == Returned(K(Bool(FALSE), v), <<>>)
\* Empty_not as the negation of Empty_is
Empty_not_NegatesIs(v) == Returned(Bool(TRUE), <<>>)

Empty_not(v) == Returned(K(Bool(FALSE), v), <<>>)
Empty_in(arr) == Returned(K(Bool(FALSE), arr), <<>>)
Empty_not_in(arr) == Returned(K(Bool(FALSE), arr), <<>>)
Empty_into(fn) == Returned(K(K(Null, <<>>), fn), <<>>)
Empty_catch(arr_branch, fn) == Returned(K(K(Null, arr_branch), fn), <<>>)

(***************************************************************************)
(* Discriminated-object union matcher (explicit key required).             *)
(***************************************************************************)
_disc_key(v) == IF typeof(v) = "boolean" THEN Str(String(v)) ELSE v

\* _disc_payload without the delete
_disc_payload_KeepsKey(obj, key) == Obj([f \in ObjectKeys(obj) |-> obj.v[f]])

_disc_payload(obj, key) ==
    Obj([f \in ObjectKeys(obj) \ {key} |-> obj.v[f]])

\* _disc_payload_obj with the delete acting on obj itself (out = obj)
_disc_payload_obj_Aliased(obj, key) ==
    Obj([f \in ObjectKeys(obj) \ {key} |-> obj.v[f]])

\* obj after _disc_payload(obj, key) returned: the delete acted on the
\* spread copy, obj is as it was
_disc_payload_obj(obj, key) == obj

matchableDisc(value, key) ==
    [recognizer |-> "disc", key |-> key, value |-> value,
     tag |-> Get(value, key)]

\* the template literal of the thrown Error, as its parts
NoHandlerMessage(key, rk) ==
    <<"match(): no handler for key=", String(Str(key)), " tag=", String(rk)>>

\* Disc_match with the default handler given the bare payload
Disc_match_DefaultGetsPayload(self, h) ==
    LET t == self.tag
        rk == IF IsNil(t) THEN Null ELSE _disc_key(t)
        has == ~IsNil(rk) /\ HasKey(h, rk)
        fn == IF has THEN Lookup(h, rk) ELSE Lookup(h, Str(Underscore))
    IN  IF fn.t # "function"
        THEN Threw(Error(NoHandlerMessage(self.key, rk)))
        ELSE Call(fn, _disc_payload(self.value, self.key))

\* Disc_match without the test for a missing handler
Disc_match_NoGuard(self, h) ==
    LET t == self.tag
        rk == IF IsNil(t) THEN Null ELSE _disc_key(t)
        has == ~IsNil(rk) /\ HasKey(h, rk)
        fn == IF has THEN Lookup(h, rk) ELSE Lookup(h, Str(Underscore))
    IN  IF has
        THEN Call(fn, _disc_payload(self.value, self.key))
        ELSE Call(fn, self.value)

\* Disc_match without the test for an absent tag
Disc_match_NoNilCheck(self, h) ==
    LET rk == _disc_key(self.tag)
        has == HasKey(h, rk)
        fn == IF has THEN Lookup(h, rk) ELSE Lookup(h, Str(Underscore))
    IN  IF fn.t # "function"
        THEN Threw(Error(NoHandlerMessage(self.key, rk)))
        ELSE IF has
             THEN Call(fn, _disc_payload(self.value, self.key))
             ELSE Call(fn, self.value)

Disc_match(self, h) ==
    LET t == self.tag
        rk == IF IsNil(t) THEN Null ELSE _disc_key(t)
        has == ~IsNil(rk) /\ HasKey(h, rk)
        fn == IF has THEN Lookup(h, rk) ELSE Lookup(h, Str(Underscore))
    IN  IF fn.t # "function"
        THEN Threw(Error(NoHandlerMessage(self.key, rk)))
        ELSE IF has
             THEN Call(fn, _disc_payload(self.value, self.key))
             ELSE Call(fn, self.value)

\* self.value after match(h) returned
Disc_match_value(self, h) ==
    LET t == self.tag
        rk == IF IsNil(t) THEN Null ELSE _disc_key(t)
        has == ~IsNil(rk) /\ HasKey(h, rk)
        fn == IF has THEN Lookup(h, rk) ELSE Lookup(h, Str(Underscore))
    IN  IF fn.t = "function" /\ has
        THEN _disc_payload_obj(self.value, self.key)
        ELSE self.value

Disc_is(self, v) == Returned(Bool(self.tag = v), <<>>)
Disc_not(self, v) == Returned(Bool(self.tag # v), <<>>)

Disc_in(self, arr) ==
    Returned(Bool(IF ~IsNil(self.tag) THEN Includes(arr, self.tag) ELSE FALSE),
             <<>>)

Disc_not_in(self, arr) == Returned(Bool(~Disc_in(self, arr).val.v), <<>>)

Disc_into(self, fn) ==
    IF IsNil(self.tag) THEN Returned(Null, <<>>)
    ELSE Call(fn, _disc_payload(self.value, self.key))

Disc_catch(self, arr_branch, fn) ==
    IF IsNil(self.tag) THEN Returned(Null, <<>>)
    ELSE IF ~Includes(arr_branch, self.tag) THEN Returned(Null, <<>>)
    ELSE Call(fn, _disc_payload(self.value, self.key))

\* self.value after into()(fn) returned
Disc_into_value(self) ==
    IF IsNil(self.tag) THEN self.value
    ELSE _disc_payload_obj(self.value, self.key)

\* self.value after catch(...arr_branch)(fn) returned
Disc_catch_value(self, arr_branch) ==
    IF IsNil(self.tag) THEN self.value
    ELSE IF ~Includes(arr_branch, self.tag) THEN self.value
    ELSE _disc_payload_obj(self.value, self.key)

(***************************************************************************)
(* Plain object matcher (+ explicit discriminant match).                   *)
(***************************************************************************)
matchableObj(value) == [recognizer |-> "object", value |-> value]

Obj_into(self, fn) == Call(fn, self.value)

\* the set of the names in a key list
KeySet(keys) == {keys[i] : i \in 1..Len(keys)}

\* Obj_catch handing on the whole record instead of the picked keys
Obj_catch_PassesWhole(self, keys, fn) ==
    IF \E i \in 1..Len(keys) : IsNil(Get(self.value, keys[i]))
    THEN Returned(Null, <<>>)
    ELSE Call(fn, self.value)

Obj_catch(self, keys, fn) ==
    IF \E i \in 1..Len(keys) : IsNil(Get(self.value, keys[i]))
    THEN Returned(Null, <<>>)
    ELSE Call(fn, Obj([k \in KeySet(keys) |-> Get(self.value, k)]))

Obj_as(self, key) == matchableDisc(self.value, key)

Obj_match(self, key, handlers) ==
    Disc_match(matchableDisc(self.value, key), handlers)

\* self.value after match(key, handlers) returned
Obj_match_value(self, key, handlers) ==
    Disc_match_value(matchableDisc(self.value, key), handlers)

(***************************************************************************)
(* Public constructor.                                                     *)
(***************************************************************************)
\* me without the /^[A-Z]/ test
me_AnySingleKey(value) ==
    IF IsNil(value) THEN emptyMatchable
    ELSE IF typeof(value) \in {"string", "number", "boolean"}
         THEN matchableEnum(value)
    ELSE IF Cardinality(ObjectKeys(value)) = 1
         THEN matchableUnion(value)
         ELSE matchableObj(value)

me(value) ==
    IF IsNil(value) THEN emptyMatchable
    ELSE IF typeof(value) \in {"string", "number", "boolean"}
         THEN matchableEnum(value)
    ELSE LET keys == ObjectKeys(value)
         IN  IF /\ Cardinality(keys) = 1
                /\ TestUpper(CHOOSE key \in keys : TRUE)
             THEN matchableUnion(value)
             ELSE matchableObj(value)

(***************************************************************************)
(* The inputs the operations are exercised on.                             *)
(***************************************************************************)
sA == <<"A">>
sKind == <<"k", "i", "n", "d">>
sX == <<"x">>
sEmpty == <<>>
sOne == <<"1">>
sa == <<"a">>
sTrue == <<"t", "r", "u", "e">>
sNull == <<"n", "u", "l", "l">>
sUndefined == <<"u", "n", "d", "e", "f", "i", "n", "e", "d">>

FieldNames == {sA, sKind, sX, sEmpty, sOne}

\* the values a field of an input record may hold
FieldVals(name) ==
    CASE name = sA ->
            {Null, Undefined, Arr(<<>>), Arr(<<Num(1)>>), Str(sa), Obj(<<>>)}
      [] name = sKind ->
            {Null, Undefined, Str(sa), Num(1), Bool(TRUE), Str(Underscore)}
      [] name = sX -> {Num(1), Null}
      [] name = sEmpty -> {Num(1)}
      [] name = sOne -> {Num(2)}

Records ==
    UNION {{Obj(f) : f \in {g \in [names -> UNION {FieldVals(n) : n \in names}] :
                              \A n \in names : g[n] \in FieldVals(n)}} :
           names \in {ns \in SUBSET FieldNames : Cardinality(ns) <= MaxFields}}

Scalars ==
    {Str(sa), Str(sTrue), Str(sOne), Num(1), Num(2), Bool(TRUE), Bool(FALSE)}

Inputs == {Null, Undefined} \cup Scalars \cup Records

HandlerKeys == {Underscore, sa, sOne, sTrue, sA, sNull, sUndefined}

\* a handler map: each key holds the handler of that name
HandlerMaps ==
    {[k \in ks |-> Fn(k)] :
        ks \in {x \in SUBSET HandlerKeys : Cardinality(x) <= MaxHandlers}}

SeqsUpTo(S, n) == UNION {[1..len -> S] : len \in 0..n}

ListVals == {Null, Str(sa), Str(sA)}
Lists == SeqsUpTo(ListVals, MaxList)

AsKeys == {sKind, sX}
CatchKeys == {sA, sKind, sX}
KeyLists == SeqsUpTo(CatchKeys, MaxList)

IsValues == {Str(sa), Num(1), Bool(TRUE), Str(sA), Null}
Fallback == Str(<<"f", "b">>)

(***************************************************************************)
(* The state machine: one call of me, then calls of its methods.           *)
(***************************************************************************)
NoMatcher == [recognizer |-> "none"]
NoArgs == [h |-> <<>>, list |-> <<>>, v |-> Undefined, key |-> <<>>]
NoOp == [op |-> "none", self |-> NoMatcher, args |-> NoArgs,
         out |-> Returned(Undefined, <<>>)]

Done(op, self, args, out) ==
    [op |-> op, self |-> self, args |-> args, out |-> out]

\* the matchers the caller holds
Held == {m, d} \ {NoMatcher}

\* no call is in progress: the caller has taken the last result
Idle == last = NoOp

\* The record given to me is one object: input, the object matcher's value
\* and the view's value are references to it.  After a call on the object
\* matcher or on its view the object holds `value`; a call on another
\* matcher touches no object.
Store(self, value) ==
    IF self.recognizer \in {"disc", "object"}
    THEN /\ input' = value
         /\ m' = [m EXCEPT !.value = value]
         /\ d' = IF d = NoMatcher THEN d ELSE [d EXCEPT !.value = value]
    ELSE UNCHANGED <<input, m, d>>

Init ==
    /\ input \in Inputs
    /\ m = NoMatcher
    /\ d = NoMatcher
    /\ last = NoOp

Me ==
    /\ m = NoMatcher
    /\ m' = me(input)
    /\ UNCHANGED <<input, d, last>>

match(self, h) ==
    CASE self.recognizer = "enum" -> Enum_match(self, h)
      [] self.recognizer = "union" -> Union_match(self, h)
      [] self.recognizer = "empty" -> Empty_match(h)
      [] self.recognizer = "disc" -> Disc_match(self, h)

Match ==
    \E self \in Held, h \in HandlerMaps :
        /\ Idle
        /\ self.recognizer \in {"enum", "union", "empty", "disc"}
        /\ last' = Done("match", self, [NoArgs EXCEPT !.h = h], match(self, h))
        /\ Store(self, IF self.recognizer = "disc"
                       THEN Disc_match_value(self, h) ELSE self.value)

ObjMatch ==
    \E key \in AsKeys, h \in HandlerMaps :
        /\ Idle
        /\ m.recognizer = "object"
        /\ last' = Done("match2", m, [NoArgs EXCEPT !.h = h, !.key = key],
                        Obj_match(m, key, h))
        /\ Store(m, Obj_match_value(m, key, h))

As ==
    \E key \in AsKeys :
        /\ Idle
        /\ m.recognizer = "object"
        /\ d' = Obj_as(m, key)
        /\ last' = Done("as", m, [NoArgs EXCEPT !.key = key],
                        Returned(Undefined, <<>>))
        /\ UNCHANGED <<input, m>>

into(self, fn) ==
    CASE self.recognizer = "enum" -> Enum_into(self, fn)
      [] self.recognizer = "union" -> Union_into(self, fn)
      [] self.recognizer = "empty" -> Empty_into(fn)
      [] self.recognizer = "disc" -> Disc_into(self, fn)
      [] self.recognizer = "object" -> Obj_into(self, fn)

Into ==
    \E self \in Held :
        /\ Idle
        /\ last' = Done("into", self, NoArgs, into(self, Fn(TheFn)))
        /\ Store(self, IF self.recognizer = "disc"
                       THEN Disc_into_value(self) ELSE self.value)

catch(self, list, fn) ==
    CASE self.recognizer = "enum" -> Enum_catch(self, list, fn)
      [] self.recognizer = "union" -> Union_catch(self, list, fn)
      [] self.recognizer = "empty" -> Empty_catch(list, fn)
      [] self.recognizer = "disc" -> Disc_catch(self, list, fn)

Catch ==
    \E self \in Held, list \in Lists :
        /\ Idle
        /\ self.recognizer \in {"enum", "union", "empty", "disc"}
        /\ last' = Done("catch", self, [NoArgs EXCEPT !.list = list],
                        catch(self, list, Fn(TheFn)))
        /\ Store(self, IF self.recognizer = "disc"
                       THEN Disc_catch_value(self, list) ELSE self.value)

ObjCatch ==
    \E keys \in KeyLists :
        /\ Idle
        /\ m.recognizer = "object"
        /\ last' = Done("catch", m, [NoArgs EXCEPT !.list = keys],
                        Obj_catch(m, keys, Fn(TheFn)))
        /\ UNCHANGED <<input, m, d>>

in(self, list) ==
    CASE self.recognizer = "enum" -> Enum_in(self, list)
      [] self.recognizer = "union" -> Union_in(self, list)
      [] self.recognizer = "empty" -> Empty_in(list)
      [] self.recognizer = "disc" -> Disc_in(self, list)

In ==
    \E self \in Held, list \in Lists :
        /\ Idle
        /\ self.recognizer \in {"enum", "union", "empty", "disc"}
        /\ last' = Done("in", self, [NoArgs EXCEPT !.list = list], in(self, list))
        /\ UNCHANGED <<input, m, d>>

not_in(self, list) ==
    CASE self.recognizer = "enum" -> Enum_not_in(self, list)
      [] self.recognizer = "union" -> Union_not_in(self, list)
      [] self.recognizer = "empty" -> Empty_not_in(list)
      [] self.recognizer = "disc" -> Disc_not_in(self, list)

NotIn ==
    \E self \in Held, list \in Lists :
        /\ Idle
        /\ self.recognizer \in {"enum", "union", "empty", "disc"}
        /\ last' = Done("not_in", self, [NoArgs EXCEPT !.list = list],
                        not_in(self, list))
        /\ UNCHANGED <<input, m, d>>

is(self, v) ==
    CASE self.recognizer = "enum" -> Enum_is(self, v)
      [] self.recognizer = "union" -> Union_is(self, v)
      [] self.recognizer = "empty" -> Empty_is(v)
      [] self.recognizer = "disc" -> Disc_is(self, v)

Is ==
    \E self \in Held, v \in IsValues :
        /\ Idle
        /\ self.recognizer \in {"enum", "union", "empty", "disc"}
        /\ last' = Done("is", self, [NoArgs EXCEPT !.v = v], is(self, v))
        /\ UNCHANGED <<input, m, d>>

not(self, v) ==
    CASE self.recognizer = "enum" -> Enum_not(self, v)
      [] self.recognizer = "union" -> Union_not(self, v)
      [] self.recognizer = "empty" -> Empty_not(v)
      [] self.recognizer = "disc" -> Disc_not(self, v)

Not ==
    \E self \in Held, v \in IsValues :
        /\ Idle
        /\ self.recognizer \in {"enum", "union", "empty", "disc"}
        /\ last' = Done("not", self, [NoArgs EXCEPT !.v = v], not(self, v))
        /\ UNCHANGED <<input, m, d>>

value_or(self, fallback) ==
    CASE self.recognizer = "enum" -> Enum_value_or(self, fallback)
      [] self.recognizer = "empty" -> Empty_value_or(fallback)

ValueOr ==
    /\ Idle
    /\ m.recognizer \in {"enum", "empty"}
    /\ last' = Done("value_or", m, [NoArgs EXCEPT !.v = Fallback],
                    value_or(m, Fallback))
    /\ UNCHANGED <<input, m, d>>

value_or_else(self, fallback) ==
    CASE self.recognizer = "enum" -> Enum_value_or_else(self, fallback)
      [] self.recognizer = "empty" -> Empty_value_or_else(fallback)

ValueOrElse ==
    /\ Idle
    /\ m.recognizer \in {"enum", "empty"}
    /\ last' = Done("value_or_else", m, NoArgs, value_or_else(m, Fn(TheFn)))
    /\ UNCHANGED <<input, m, d>>

\* the caller takes the result of the last call and goes on
Return ==
    /\ ~Idle
    /\ last' = NoOp
    /\ UNCHANGED <<input, m, d>>

Next ==
    \/ Me
    \/ Match
    \/ ObjMatch
    \/ As
    \/ Into
    \/ Catch
    \/ ObjCatch
    \/ In
    \/ NotIn
    \/ Is
    \/ Not
    \/ ValueOr
    \/ ValueOrElse
    \/ Return

Spec == Init /\ [][Next]_vars

(***************************************************************************)
(* What the claims speak of, read off the caller's side: the raw input,    *)
(* the arguments of the last call, the handlers it invoked and its result. *)
(***************************************************************************)
LastIs(op, recognizer) ==
    last.op = op /\ last.self.recognizer = recognizer

\* the last call invoked exactly the handler `name`, once, with `arg`, and
\* returned that handler's result
InvokedOnly(name, arg) ==
    /\ last.out.kind = "return"
    /\ last.out.calls = <<[fn |-> name, arg |-> arg]>>
    /\ last.out.val = Ret(name)

\* the last call returned null and invoked nothing
ReturnedNullUncalled ==
    last.out = [kind |-> "return", val |-> Null, calls |-> <<>>]

\* the last call threw and invoked nothing
ThrewUncalled == last.out.kind = "throw" /\ last.out.calls = <<>>

IsRecord(v) == v.t = "object"

\* a record with exactly one field, whose name starts with A-Z
IsVariantRecord(v) ==
    /\ IsRecord(v)
    /\ Cardinality(DOMAIN v.v) = 1
    /\ \A name \in DOMAIN v.v : Len(name) >= 1 /\ name[1] \in UpperCase

\* C1: me(value) yields empty iff value is null or undefined, enum iff it is
\* a string, number or boolean, union iff it is a record with exactly one
\* field whose name starts with A-Z, object for every other record, and
\* never a disc matcher.
C1_Classification ==
    m # NoMatcher =>
        /\ m.recognizer \in {"empty", "enum", "union", "object"}
        /\ (m.recognizer = "empty") = (input \in {Null, Undefined})
        /\ (m.recognizer = "enum") = (input.t \in {"string", "number", "boolean"})
        /\ (m.recognizer = "union") = IsVariantRecord(input)
        /\ (m.recognizer = "object") = (IsRecord(input) /\ ~IsVariantRecord(input))

\* C1 witness: a record with a single field whose name does not start with
\* A-Z was classified
C1_Witness ==
    /\ m # NoMatcher
    /\ IsRecord(input)
    /\ Cardinality(DOMAIN input.v) = 1
    /\ ~IsVariantRecord(input)

\* C2 as stated: on the empty matcher, match(h) with a default handler `_`
\* in h invokes that handler with an absent argument and returns its result.
C2_EmptyMatchInvokesDefault ==
    (LastIs("match", "empty") /\ Underscore \in DOMAIN last.args.h)
        => InvokedOnly(Underscore, Undefined)

\* C2 amended: on the empty matcher, match(h) returns null and invokes no
\* handler, whatever handlers h holds, the default `_` included.
C2_EmptyMatchReturnsNull ==
    LastIs("match", "empty") => ReturnedNullUncalled

\* C2 witness: match was called on the empty matcher with a default handler
C2_Witness ==
    /\ LastIs("match", "empty")
    /\ Underscore \in DOMAIN last.args.h
    /\ input \in {Null, Undefined}

\* the handler-map key of a scalar: booleans as "true"/"false"
ScalarKey(v) ==
    IF v.t = "boolean"
    THEN (IF v.v THEN <<"t", "r", "u", "e">> ELSE <<"f", "a", "l", "s", "e">>)
    ELSE IF v.t = "number" THEN NumToStr(v.v)
    ELSE v.v

\* the handler a map selects for a key: the key's own, else the default
Selected(h, key) == IF key \in DOMAIN h THEN key ELSE Underscore

\* C3: on an enum matcher of scalar v, match(h) invokes exactly h[key] when
\* key (v, booleans as "true"/"false") is in h and exactly h._ otherwise,
\* passes the original value v, and returns the handler's result.
C3_EnumMatch ==
    (/\ LastIs("match", "enum")
     /\ Selected(last.args.h, ScalarKey(input)) \in DOMAIN last.args.h)
        => InvokedOnly(Selected(last.args.h, ScalarKey(input)), input)

\* C3 witness: a boolean was matched by its string key
C3_Witness ==
    /\ LastIs("match", "enum")
    /\ input.t = "boolean"
    /\ ScalarKey(input) \in DOMAIN last.args.h
    /\ last.out.calls # <<>>

\* the tag and the payload of a variant record
VariantTag(v) == CHOOSE name \in DOMAIN v.v : TRUE
VariantPayload(v) == v.v[VariantTag(v)]

\* C4: on a variant record {Tag: payload}, match(h) invokes h[Tag] when
\* present and h._ otherwise, and in both cases passes the payload, never
\* the one-field record.
C4_VariantMatch ==
    (/\ LastIs("match", "union")
     /\ Selected(last.args.h, VariantTag(input)) \in DOMAIN last.args.h)
        => /\ InvokedOnly(Selected(last.args.h, VariantTag(input)),
                          VariantPayload(input))
           /\ last.out.calls[1].arg # input

\* C4 witness: the default handler of a variant match was invoked
C4_Witness ==
    /\ LastIs("match", "union")
    /\ VariantTag(input) \notin DOMAIN last.args.h
    /\ last.out.calls # <<>>
    /\ last.out.calls[1].fn = Underscore

\* the last call was a discriminated match: as(key).match(h) or match(key, h)
DiscMatchCall == LastIs("match", "disc") \/ LastIs("match2", "object")

\* the discriminant key of the last discriminated call
DiscKey == IF last.op = "match2" THEN last.args.key ELSE last.self.key

\* the tag the input record holds under the discriminant key
DiscTag == IF DiscKey \in DOMAIN input.v THEN input.v[DiscKey] ELSE Undefined

Absent(v) == v \in {Null, Undefined}

\* v is the record r without its field k, and nothing else
IsBarePayload(v, r, k) ==
    /\ IsRecord(v)
    /\ DOMAIN v.v = DOMAIN r.v \ {k}
    /\ \A f \in DOMAIN v.v : v.v[f] = r.v[f]

\* C5: for a record r, a discriminant key k with a present tag r[k] and a
\* handler map h that has the normalized tag as a key, as(k).match(h)
\* invokes exactly that tag's handler with the bare payload: every field of
\* r other than k with the same value, no field k, no other field.
C5_DiscHitGetsBarePayload ==
    (/\ DiscMatchCall
     /\ ~Absent(DiscTag)
     /\ ScalarKey(DiscTag) \in DOMAIN last.args.h)
        => /\ last.out.kind = "return"
           /\ Len(last.out.calls) = 1
           /\ last.out.calls[1].fn = ScalarKey(DiscTag)
           /\ last.out.val = Ret(ScalarKey(DiscTag))
           /\ IsBarePayload(last.out.calls[1].arg, input, DiscKey)

\* C5 witness: a tag handler was invoked on a record with further fields
C5_Witness ==
    /\ DiscMatchCall
    /\ ~Absent(DiscTag)
    /\ ScalarKey(DiscTag) \in DOMAIN last.args.h
    /\ Cardinality(DOMAIN input.v) >= 2
    /\ last.out.calls # <<>>

\* C6 as stated: in discriminated matching, whenever match invokes the
\* handler stored under `_`, for every tag value the record can hold, the
\* argument is the full original record.
C6_UnderscoreAlwaysGetsFullRecord ==
    (/\ DiscMatchCall
     /\ last.out.calls # <<>>
     /\ last.out.calls[1].fn = Underscore)
        => last.out.calls[1].arg = input

\* C6 amended: in discriminated matching, whenever match falls back to the
\* default handler `_` (the tag is absent, or its normalized key is not a
\* key of the handler map), the argument is the full original record, the
\* discriminant field still present if the record had it; the default
\* handler of a variant match receives only the payload.
C6_DiscDefaultGetsFullRecord ==
    /\ (/\ DiscMatchCall
        /\ Absent(DiscTag) \/ ScalarKey(DiscTag) \notin DOMAIN last.args.h
        /\ Underscore \in DOMAIN last.args.h)
           => /\ InvokedOnly(Underscore, input)
              /\ DOMAIN last.out.calls[1].arg.v = DOMAIN input.v
    /\ (/\ LastIs("match", "union")
        /\ VariantTag(input) \notin DOMAIN last.args.h
        /\ Underscore \in DOMAIN last.args.h)
           => InvokedOnly(Underscore, VariantPayload(input))

\* C6 witness: the default handler was invoked for a present tag that has no
\* handler of its own
C6_Witness ==
    /\ DiscMatchCall
    /\ ~Absent(DiscTag)
    /\ ScalarKey(DiscTag) \notin DOMAIN last.args.h
    /\ last.out.calls # <<>>
    /\ last.out.calls[1].fn = Underscore
    /\ DiscKey \in DOMAIN last.out.calls[1].arg.v

\* the text of a tag in the error message: an absent tag reads "null"
TagText(tag) == IF Absent(tag) THEN <<"n", "u", "l", "l">> ELSE ScalarKey(tag)

\* C7: match with a handler map that has neither a handler for the matcher's
\* tag nor a default handler `_` throws and invokes no handler, for the enum,
\* variant and discriminated shapes; the discriminated error message is
\* "match(): no handler for key=<key> tag=<tag>".
C7_NoHandlerThrows ==
    /\ (/\ LastIs("match", "enum")
        /\ ScalarKey(input) \notin DOMAIN last.args.h
        /\ Underscore \notin DOMAIN last.args.h)
           => ThrewUncalled
    /\ (/\ LastIs("match", "union")
        /\ VariantTag(input) \notin DOMAIN last.args.h
        /\ Underscore \notin DOMAIN last.args.h)
           => ThrewUncalled
    /\ (/\ DiscMatchCall
        /\ Absent(DiscTag) \/ ScalarKey(DiscTag) \notin DOMAIN last.args.h
        /\ Underscore \notin DOMAIN last.args.h)
           => /\ ThrewUncalled
              /\ last.out.val.t = "error"
              /\ last.out.val.v = <<"match(): no handler for key=", DiscKey,
                                    " tag=", TagText(DiscTag)>>

\* C7 witness: a discriminated match on a boolean tag found no handler
C7_Witness ==
    /\ DiscMatchCall
    /\ DiscTag = Bool(TRUE)
    /\ ScalarKey(DiscTag) \notin DOMAIN last.args.h
    /\ Underscore \notin DOMAIN last.args.h
    /\ last.out.kind = "throw"

\* C8: on a discriminated matcher whose discriminant is null, undefined or
\* missing, match(h) invokes h._ with the full record whatever other
\* handlers h holds ("null" and "undefined" included), in(list) is false for
\* every list, and into() and catch(...tags) return null without invoking
\* the handler.
C8_AbsentDiscriminant ==
    /\ (DiscMatchCall /\ Absent(DiscTag) /\ Underscore \in DOMAIN last.args.h)
           => InvokedOnly(Underscore, input)
    /\ (LastIs("in", "disc") /\ Absent(DiscTag))
           => last.out = [kind |-> "return", val |-> Bool(FALSE), calls |-> <<>>]
    /\ (LastIs("into", "disc") /\ Absent(DiscTag)) => ReturnedNullUncalled
    /\ (LastIs("catch", "disc") /\ Absent(DiscTag)) => ReturnedNullUncalled

\* C8 witness: a match on a null discriminant with a handler keyed "null"
C8_Witness ==
    /\ DiscMatchCall
    /\ DiscTag = Null
    /\ {Underscore, <<"n", "u", "l", "l">>} \subseteq DOMAIN last.args.h
    /\ last.out.calls # <<>>

\* a payload into() and catch() hand on: not absent, not an empty sequence
Deliverable(payload) ==
    ~Absent(payload) /\ ~(payload.t = "array" /\ Len(payload.v) = 0)

InList(list, x) == \E i \in DOMAIN list : list[i] = x

\* C9: on a variant matcher, into() invokes the handler with the payload iff
\* the payload is neither absent nor an empty sequence, else returns null
\* uncalled; catch(...tags) does the same and also requires the matcher's
\* tag to be in tags.
C9_VariantIntoCatch ==
    /\ LastIs("into", "union") =>
           IF Deliverable(VariantPayload(input))
           THEN InvokedOnly(TheFn, VariantPayload(input))
           ELSE ReturnedNullUncalled
    /\ LastIs("catch", "union") =>
           IF /\ Deliverable(VariantPayload(input))
              /\ InList(last.args.list, Str(VariantTag(input)))
           THEN InvokedOnly(TheFn, VariantPayload(input))
           ELSE ReturnedNullUncalled

\* C9 witness: into() on an empty-sequence payload returned null
C9_Witness ==
    /\ LastIs("into", "union")
    /\ VariantPayload(input) = Arr(<<>>)
    /\ last.out.calls = <<>>

\* the value a record holds under a name, a missing field being undefined
FieldOf(r, name) == IF name \in DOMAIN r.v THEN r.v[name] ELSE Undefined

\* C10: on a plain record r, catch(...ks) returns null uncalled iff some key
\* of ks is absent (null, undefined or missing) in r; otherwise it invokes
\* the handler once with a record whose fields are exactly ks, with r's
\* values.  With no keys the handler receives a record with no fields.
C10_ObjectCatch ==
    LastIs("catch", "object") =>
        LET ks == last.args.list
            names == {ks[i] : i \in DOMAIN ks}
        IN  IF \E name \in names : Absent(FieldOf(input, name))
            THEN ReturnedNullUncalled
            ELSE /\ last.out.kind = "return"
                 /\ Len(last.out.calls) = 1
                 /\ last.out.calls[1].fn = TheFn
                 /\ last.out.val = Ret(TheFn)
                 /\ IsRecord(last.out.calls[1].arg)
                 /\ DOMAIN last.out.calls[1].arg.v = names
                 /\ \A name \in names :
                        last.out.calls[1].arg.v[name] = input.v[name]

\* C10 witness: catch picked two present keys out of a larger record
C10_Witness ==
    /\ LastIs("catch", "object")
    /\ Cardinality({last.args.list[i] : i \in DOMAIN last.args.list}) = 2
    /\ Cardinality(DOMAIN input.v) = 3
    /\ last.out.calls # <<>>

\* the last call returned `val` and invoked nothing
ReturnedUncalled(val) ==
    last.out = [kind |-> "return", val |-> val, calls |-> <<>>]

\* C11: on the empty matcher is, not, in and not_in return false for every
\* argument, value_or(f) returns f, value_or_else(p) returns the result of
\* invoking p, into() and catch(...) return null for every handler without
\* invoking it, and no call on it invokes a handler with a payload.
C11_EmptyMatcher ==
    last.self.recognizer = "empty" =>
        /\ last.op \in {"is", "not", "in", "not_in"}
               => ReturnedUncalled(Bool(FALSE))
        /\ last.op = "value_or" => ReturnedUncalled(last.args.v)
        /\ last.op = "value_or_else" => InvokedOnly(TheFn, Undefined)
        /\ last.op \in {"into", "catch"} => ReturnedNullUncalled
        /\ \A i \in DOMAIN last.out.calls : Absent(last.out.calls[i].arg)

\* C11 witness: not(v) was called on the empty matcher made from undefined
C11_Witness ==
    /\ LastIs("not", "empty")
    /\ input = Undefined
    /\ last.out.val = Bool(FALSE)

\* the matcher the last call was made on, as the caller holds it now
Holder == IF last.self.recognizer = "disc" THEN d ELSE m

\* the result of making the last call once more, now
Again ==
    CASE last.op = "is" -> is(Holder, last.args.v)
      [] last.op = "not" -> not(Holder, last.args.v)
      [] last.op = "in" -> in(Holder, last.args.list)
      [] last.op = "not_in" -> not_in(Holder, last.args.list)
      [] last.op = "match" -> match(Holder, last.args.h)
      [] last.op = "match2" -> Obj_match(Holder, last.args.key, last.args.h)
      [] last.op = "into" -> into(Holder, Fn(TheFn))
      [] last.op = "catch" ->
            IF Holder.recognizer = "object"
            THEN Obj_catch(Holder, last.args.list, Fn(TheFn))
            ELSE catch(Holder, last.args.list, Fn(TheFn))
      [] OTHER -> last.out

\* the last call was a discriminated match, into or catch that handed a bare
\* payload to a handler
BuiltBarePayload ==
    /\ DiscMatchCall \/ LastIs("into", "disc") \/ LastIs("catch", "disc")
    /\ last.out.calls # <<>>
    /\ DiscKey \in DOMAIN input.v
    /\ DiscKey \notin DOMAIN last.out.calls[1].arg.v

\* after a call, the matcher it was made on is the one the call was made on,
\* the same call returns the same result, and the record still holds the
\* discriminant a bare payload was built without
C12_AfterCall ==
    last.op \notin {"none", "as"} =>
        /\ Holder = last.self
        /\ Again = last.out
        /\ BuiltBarePayload =>
               /\ input.v[DiscKey] = last.self.value.v[DiscKey]
               /\ Holder.value = input

\* a step leaves the record given to me, the matcher me returned and the
\* view as(key) returned as they were (as(key) returns a new view)
C12_Frame ==
    m # NoMatcher =>
        /\ input' = input
        /\ m' = m
        /\ (d # NoMatcher /\ last'.op # "as") => d' = d

\* C12: no call of match, into, catch, is, not, in, not_in or as changes the
\* record given to me or the matcher: the record keeps its fields and
\* values, the discriminant included after a bare payload was built, the
\* matcher keeps its recognizer, tag and value, and repeating a call with
\* the same arguments returns the same result.
C12_NoMutation == [](C12_AfterCall) /\ [][C12_Frame]_vars

\* C12 witness: into() on a view handed on a bare payload, and the record
\* still holds the discriminant
C12_Witness ==
    /\ LastIs("into", "disc")
    /\ BuiltBarePayload
    /\ d.value = input
    /\ Cardinality(DOMAIN input.v) >= 2

=============================================================================
